---- MODULE Spec2Model ----
(***************************************************************************)
(* Model of SemanticDocumentParser: the four element parsers               *)
(* (metadata_parser, semantic_splitter, list_parser, semantic_tables) and  *)
(* the orchestrating SemanticDocumentParser.aparse.                        *)
(*                                                                         *)
(* Python values are modelled as follows.                                  *)
(*   str            a TLA+ string (Len, \o and SubSeq act on characters)   *)
(*   list           a sequence                                             *)
(*   Optional[T]    a sequence of length <= 1: None is <<>>, v is <<v>>    *)
(*   Element        a record [kind, text, metadata]; kind is the class     *)
(*   an exception   the program position (pc) or a task status "raised"    *)
(***************************************************************************)
EXTENDS Integers, Sequences, FiniteSets, TLC

VARIABLES
    pc,             \* position of the running program
    now,            \* the wall clock read by int(time.time())
    elements,       \* the `elements` argument of the running stage / local of aparse
    nodes,          \* the `nodes` accumulator local to the running stage
    ret,            \* Optional: the value returned by the stage that ran last
    pos,            \* number of loop iterations completed by the running stage
    header_node,    \* list_parser local
    list_group,     \* list_parser local
    last_node,      \* list_parser local
    element_groups, \* semantic_splitter local
    subpos,         \* _semantic_split_element_group: nodes of the group processed
    group_nodes,    \* _semantic_split_element_group local `nodes`
    tasks,          \* semantic_tables: the _semantic_ingest_table coroutines
    times,          \* aparse locals _k_start_time / _k_end_time
    partitioned,    \* Optional: the list the partitioner returned to aparse
    calls,          \* the stages aparse has invoked, with argument and outcome
    result          \* Optional: the pair aparse returned

vars == <<pc, now, elements, nodes, ret, pos, header_node, list_group, last_node,
          element_groups, subpos, group_nodes, tasks, times, partitioned, calls, result>>

----------------------------------------------------------------------------
(* Bounds of the model *)

MaxLen == 3

MaxTables == 2

MaxDoc == 2

MaxTime == 1

MaxLinks == 2

----------------------------------------------------------------------------
(* Python values *)

None == <<>>

Some(v) == <<v>>

\* ElementMetadata() with every field unset
EmptyMetadata ==
    [text_as_html |-> None, links |-> None, link_texts |-> None, link_urls |-> None,
     parent_id |-> None, category_depth |-> None, filetype |-> None,
     languages |-> None, page_number |-> None]

Element(kind, text, metadata) == [kind |-> kind, text |-> text, metadata |-> metadata]

NarrativeText(text, metadata) == Element("NarrativeText", text, metadata)

\* isinstance(element, cls) for the element classes the parsers test; none of
\* Title, NarrativeText, ListItem, Table, PageBreak derives from another.
isinstance(element, cls) == element.kind = cls

\* every element of a sequence-typed Optional is a list: flatten a sequence of sequences
RECURSIVE Flatten(_)
Flatten(ss) == IF ss = <<>> THEN <<>> ELSE Head(ss) \o Flatten(Tail(ss))

\* sep.join(parts)
RECURSIVE Join(_, _)
Join(parts, sep) ==
    IF parts = <<>> THEN ""
    ELSE IF Len(parts) = 1 THEN parts[1]
    ELSE parts[1] \o sep \o Join(Tail(parts), sep)

\* s.startswith(p)
StartsWith(s, p) == Len(p) <= Len(s) /\ SubSeq(s, 1, Len(p)) = p

\* all sequences over S of length at most n
SeqsUpTo(S, n) == UNION {[1..k -> S] : k \in 0..n}

\* metadata as the partitioner leaves it on an element without links or HTML
PartitionMetadata ==
    [EmptyMetadata EXCEPT !.filetype = Some("text/html"), !.page_number = Some(1)]

TableMetadata(html) == [PartitionMetadata EXCEPT !.text_as_html = Some(html)]

----------------------------------------------------------------------------
(* list_parser.py *)

\* _list_group_parser(elements, header_node); idx here is Python's idx + 1
_list_group_parser(group, header) ==
    LET header_text == IF header # None THEN header[1].text \o "\n\n" ELSE ""
        footer_text == " There were " \o ToString(Len(group)) \o " items."
    IN  <<NarrativeText(
            header_text
              \o Join([i \in 1..Len(group) |-> "- " \o group[i].text], "\n")
              \o footer_text,
            EmptyMetadata)>>
        \o [idx \in 1..Len(group) |->
              NarrativeText(
                header_text \o "List Item #" \o ToString(idx) \o "): " \o group[idx].text,
                group[idx].metadata)]

_iterate_without_page_breaks_Keep(es) == es

\* the elements the generator yields, in order
_iterate_without_page_breaks(es) ==
    SelectSeq(es, LAMBDA e : ~isinstance(e, "PageBreak"))

\* the locals of list_parser before the loop
ListLocals0 ==
    [nodes |-> <<>>, header_node |-> None, list_group |-> <<>>, last_node |-> None]

\* one iteration of the loop of list_parser on the yielded element
ListBody(l, element) ==
    IF isinstance(element, "ListItem")
    THEN [l EXCEPT !.list_group = Append(@, element),
                   !.header_node =
                       IF l.last_node # None
                          /\ (isinstance(l.last_node[1], "NarrativeText")
                              \/ isinstance(l.last_node[1], "Title"))
                       THEN l.last_node ELSE @,
                   !.last_node = Some(element)]
    ELSE IF l.last_node # None /\ isinstance(l.last_node[1], "ListItem")
    THEN [l EXCEPT !.nodes = Append(@, element)
                                 \o _list_group_parser(l.list_group, l.header_node),
                   !.list_group = <<>>,
                   !.header_node = None,
                   !.last_node = Some(element)]
    ELSE [l EXCEPT !.nodes = Append(@, element), !.last_node = Some(element)]

\* the locals of list_parser after the loop has consumed the yielded sequence ys
RECURSIVE ListLoop(_, _)
ListLoop(l, ys) == IF ys = <<>> THEN l ELSE ListLoop(ListBody(l, Head(ys)), Tail(ys))

\* list_parser(elements): the returned list
list_parser(es) == ListLoop(ListLocals0, _iterate_without_page_breaks(es)).nodes

----------------------------------------------------------------------------
(* Input documents *)

Title(text) == Element("Title", text, PartitionMetadata)

ListItem(text) == Element("ListItem", text, PartitionMetadata)

PageBreak == Element("PageBreak", "", PartitionMetadata)

Table(text, html) == Element("Table", text, TableMetadata(html))

TableA == Table("a b", "<table><tr><td> a</td><td>b</td></tr></table>")

\* the elements the inputs of list_parser are built from
ListUniverse ==
    {Title("Intro"), NarrativeText("Para", PartitionMetadata), ListItem("A"),
     ListItem("B"), PageBreak, TableA}

ListDocs == SeqsUpTo(ListUniverse, MaxLen)

----------------------------------------------------------------------------
(* The state every stage starts in *)

IdleLocals ==
    /\ nodes = <<>>
    /\ ret = None
    /\ pos = 0
    /\ header_node = None
    /\ list_group = <<>>
    /\ last_node = None
    /\ element_groups = <<>>
    /\ subpos = 0
    /\ group_nodes = <<>>
    /\ tasks = <<>>

\* the locals _1_start_time .. _5_end_time of aparse, none assigned yet
NoTimes ==
    [_1_start_time |-> None, _1_end_time |-> None, _2_start_time |-> None,
     _2_end_time |-> None, _3_start_time |-> None, _3_end_time |-> None,
     _4_start_time |-> None, _4_end_time |-> None, _5_start_time |-> None,
     _5_end_time |-> None]

IdleAparse ==
    /\ now = 0
    /\ times = NoTimes
    /\ partitioned = None
    /\ calls = <<>>
    /\ result = None

aparseVars == <<now, times, partitioned, calls, result>>

listVars == <<header_node, list_group, last_node>>

splitterVars == <<element_groups, subpos, group_nodes>>

----------------------------------------------------------------------------
(* list_parser, statement by statement *)

\* lines 65-70: the locals are initialised
list_parser_Enter ==
    /\ pc = "list_parser"
    /\ nodes' = ListLocals0.nodes
    /\ header_node' = ListLocals0.header_node
    /\ list_group' = ListLocals0.list_group
    /\ last_node' = ListLocals0.last_node
    /\ pos' = 0
    /\ pc' = "list_loop"
    /\ UNCHANGED <<elements, ret, tasks>>
    /\ UNCHANGED splitterVars
    /\ UNCHANGED aparseVars

\* lines 72-92: one iteration of the loop over the generator
list_parser_Loop ==
    /\ pc = "list_loop"
    /\ pos < Len(_iterate_without_page_breaks(elements))
    /\ LET l == ListBody([nodes |-> nodes, header_node |-> header_node,
                          list_group |-> list_group, last_node |-> last_node],
                         _iterate_without_page_breaks(elements)[pos + 1])
       IN  /\ nodes' = l.nodes
           /\ header_node' = l.header_node
           /\ list_group' = l.list_group
           /\ last_node' = l.last_node
    /\ pos' = pos + 1
    /\ UNCHANGED <<pc, elements, ret, tasks>>
    /\ UNCHANGED splitterVars
    /\ UNCHANGED aparseVars

\* line 94: the generator is exhausted, nodes is returned
list_parser_Return ==
    /\ pc = "list_loop"
    /\ pos = Len(_iterate_without_page_breaks(elements))
    /\ ret' = Some(nodes)
    /\ pc' = "list_return"
    /\ UNCHANGED <<elements, nodes, pos, tasks>>
    /\ UNCHANGED listVars
    /\ UNCHANGED splitterVars
    /\ UNCHANGED aparseVars

InitList ==
    /\ pc = "list_parser"
    /\ elements \in ListDocs
    /\ IdleLocals
    /\ IdleAparse

NextList == list_parser_Enter \/ list_parser_Loop \/ list_parser_Return

SpecList == InitList /\ [][NextList]_vars

----------------------------------------------------------------------------
(* Properties of list_parser *)

Yielded == _iterate_without_page_breaks(elements)

Occurs(e, seq) == \E i \in 1..Len(seq) : seq[i] = e

IsText(e) == isinstance(e, "NarrativeText") \/ isinstance(e, "Title")

\* the length of the maximal run of ListItem elements that ys starts with
RECURSIVE RunLength(_)
RunLength(ys) ==
    IF ys = <<>> \/ ~isinstance(Head(ys), "ListItem") THEN 0 ELSE 1 + RunLength(Tail(ys))

\* the length of the maximal run of ListItem elements that ys ends with
RECURSIVE TrailingRunLength(_)
TrailingRunLength(ys) ==
    IF ys = <<>> \/ ~isinstance(ys[Len(ys)], "ListItem") THEN 0
    ELSE 1 + TrailingRunLength(SubSeq(ys, 1, Len(ys) - 1))

\* the header of a run: the element just before it, if that is a NarrativeText or a Title
HeaderOf(prev) == IF prev # None /\ IsText(prev[1]) THEN prev ELSE None

\* the consolidated sequence with every run's elements at the run's position
RECURSIVE InPlaceConsolidation(_, _)
InPlaceConsolidation(ys, prev) ==
    IF ys = <<>> THEN <<>>
    ELSE IF isinstance(Head(ys), "ListItem")
    THEN LET n == RunLength(ys)
         IN  _list_group_parser(SubSeq(ys, 1, n), HeaderOf(prev))
               \o InPlaceConsolidation(SubSeq(ys, n + 1, Len(ys)), Some(ys[n]))
    ELSE <<Head(ys)>> \o InPlaceConsolidation(Tail(ys), Some(Head(ys)))

\* C2: when list_parser returns, a run of N >= 1 ListItem elements that ends the
\* input has been flushed: its aggregate NarrativeText and its N per-item
\* NarrativeTexts all occur in the returned list.
C2_TrailingRunFlushed ==
    pc = "list_return" =>
        LET n == TrailingRunLength(Yielded)
            m == Len(Yielded)
            derived == _list_group_parser(
                           SubSeq(Yielded, m - n + 1, m),
                           HeaderOf(IF m - n >= 1 THEN Some(Yielded[m - n]) ELSE None))
        IN  n >= 1 => \A i \in 1..Len(derived) : Occurs(derived[i], ret[1])

\* C5: when list_parser returns on an input in which every run of list items is
\* followed by a non-list element, the returned list has every run's elements
\* (aggregate, then the items in order) at the run's position: after the element
\* that preceded the run and before the non-list element that follows it.
C5_RunEmittedInPlace ==
    (pc = "list_return" /\ TrailingRunLength(Yielded) = 0) =>
        ret[1] = InPlaceConsolidation(Yielded, None)

NoListItem(es) == \A i \in 1..Len(es) : ~isinstance(es[i], "ListItem")

\* C10: on an input without ListItem elements list_parser returns the input with
\* only its PageBreak elements removed, the rest unchanged and in order, and
\* list_parser applied to that result returns it unchanged.
C10_NoListItemsIdentity ==
    (pc = "list_return" /\ NoListItem(elements)) =>
        /\ ret[1] = SelectSeq(elements, LAMBDA e : e.kind # "PageBreak")
        /\ list_parser(ret[1]) = ret[1]

C10_Witness ==
    /\ pc = "list_return"
    /\ NoListItem(elements)
    /\ Occurs(PageBreak, elements)
    /\ Len(ret[1]) >= 2

----------------------------------------------------------------------------
(* semantic_splitter.py *)

\* ElementGroup(title_node=..., nodes=...)
ElementGroup(title_node, ns) == [title_node |-> title_node, nodes |-> ns]

\* one iteration of the loop of _create_element_groups; g is the pair of locals
\* element_groups and current_group.  A current_group that is set is a dict
\* with two keys, hence truthy at line 36.
CreateGroupsBody(g, element) ==
    IF isinstance(element, "Title")
    THEN [element_groups |->
              IF g.current_group # None
              THEN Append(g.element_groups, g.current_group[1])
              ELSE g.element_groups,
          current_group |-> Some(ElementGroup(element, <<>>))]
    ELSE IF g.current_group # None
    THEN [g EXCEPT !.current_group =
              Some([g.current_group[1] EXCEPT !.nodes = Append(@, element)])]
    ELSE g

RECURSIVE CreateGroupsLoop(_, _)
CreateGroupsLoop(g, es) ==
    IF es = <<>> THEN g ELSE CreateGroupsLoop(CreateGroupsBody(g, Head(es)), Tail(es))

\* _create_element_groups(elements)
_create_element_groups(es) ==
    LET g == CreateGroupsLoop([element_groups |-> <<>>, current_group |-> None], es)
    IN  IF g.current_group # None
        THEN Append(g.element_groups, g.current_group[1])
        ELSE g.element_groups

\* the places where text may be cut: after the blank that follows a full stop
SentenceCuts(text) ==
    {i \in 2..(Len(text) - 1) : SubSeq(text, i, i) = " " /\ SubSeq(text, i - 1, i - 1) = "."}

\* text cut after every position of cuts that is >= start
RECURSIVE ChunksFrom(_, _, _)
ChunksFrom(text, start, cuts) ==
    LET later == {c \in cuts : c >= start}
    IN  IF later = {} THEN <<SubSeq(text, start, Len(text))>>
        ELSE LET c == CHOOSE x \in later : \A y \in later : x <= y
             IN  <<SubSeq(text, start, c)>> \o ChunksFrom(text, c + 1, cuts)

\* node_parser.build_semantic_nodes_from_documents(documents=[Document(text)]):
\* the texts of the nodes the external splitter may return: the text cut at any
\* set of sentence boundaries, in order
build_semantic_nodes_from_documents(text) ==
    {ChunksFrom(text, 1, cuts) : cuts \in SUBSET SentenceCuts(text)}

\* _semantic_split_node(title_node, node, node_parser), given the texts of the
\* nodes the parser returned
_semantic_split_node(title_node, node, llama_nodes) ==
    [i \in 1..Len(llama_nodes) |->
        NarrativeText(title_node.text \o "\n" \o llama_nodes[i], node.metadata)]

\* the value semantic_splitter returns (line 164), given its argument and the
\* list it has built
semantic_splitter_result(es, ns) == es

\* the elements the inputs of semantic_splitter are built from
SplitterUniverse ==
    {Title("Intro"), Title("Next"), NarrativeText("One. Two.", PartitionMetadata),
     NarrativeText("Para", PartitionMetadata), ListItem("A")}

SplitterDocs == SeqsUpTo(SplitterUniverse, MaxLen)

\* lines 152-153
semantic_splitter_Enter ==
    /\ pc = "semantic_splitter"
    /\ element_groups' = _create_element_groups(elements)
    /\ nodes' = <<>>
    /\ pos' = 0
    /\ pc' = "splitter_loop"
    /\ UNCHANGED <<elements, ret, subpos, group_nodes, tasks>>
    /\ UNCHANGED listVars
    /\ UNCHANGED aparseVars

\* lines 155-158 and 106: _semantic_split_element_group is called on the next group
split_element_group_Enter ==
    /\ pc = "splitter_loop"
    /\ pos < Len(element_groups)
    /\ group_nodes' = <<>>
    /\ subpos' = 0
    /\ pc' = "splitter_group"
    /\ UNCHANGED <<elements, nodes, ret, pos, element_groups, tasks>>
    /\ UNCHANGED listVars
    /\ UNCHANGED aparseVars

\* lines 108-113: a node that is no NarrativeText is passed on
split_element_group_Pass ==
    /\ pc = "splitter_group"
    /\ subpos < Len(element_groups[pos + 1].nodes)
    /\ LET node == element_groups[pos + 1].nodes[subpos + 1]
       IN  /\ ~isinstance(node, "NarrativeText")
           /\ group_nodes' = Append(group_nodes, node)
    /\ subpos' = subpos + 1
    /\ UNCHANGED <<pc, elements, nodes, ret, pos, element_groups, tasks>>
    /\ UNCHANGED listVars
    /\ UNCHANGED aparseVars

\* lines 116-122: a NarrativeText is split; the stage awaits the splitter's
\* thread, and nothing else of the stage runs meanwhile
split_element_group_Split ==
    /\ pc = "splitter_group"
    /\ subpos < Len(element_groups[pos + 1].nodes)
    /\ LET group == element_groups[pos + 1]
           node == group.nodes[subpos + 1]
       IN  /\ isinstance(node, "NarrativeText")
           /\ \E llama_nodes \in build_semantic_nodes_from_documents(node.text) :
                 group_nodes' =
                     group_nodes \o _semantic_split_node(group.title_node, node, llama_nodes)
    /\ subpos' = subpos + 1
    /\ UNCHANGED <<pc, elements, nodes, ret, pos, element_groups, tasks>>
    /\ UNCHANGED listVars
    /\ UNCHANGED aparseVars

\* line 124, then lines 157-162: the group's list is returned and added
split_element_group_Return ==
    /\ pc = "splitter_group"
    /\ subpos = Len(element_groups[pos + 1].nodes)
    /\ nodes' = nodes \o group_nodes
    /\ pos' = pos + 1
    /\ pc' = "splitter_loop"
    /\ UNCHANGED <<elements, ret, element_groups, subpos, group_nodes, tasks>>
    /\ UNCHANGED listVars
    /\ UNCHANGED aparseVars

\* line 164
semantic_splitter_Return ==
    /\ pc = "splitter_loop"
    /\ pos = Len(element_groups)
    /\ ret' = Some(semantic_splitter_result(elements, nodes))
    /\ pc' = "splitter_return"
    /\ UNCHANGED <<elements, nodes, pos, element_groups, subpos, group_nodes, tasks>>
    /\ UNCHANGED listVars
    /\ UNCHANGED aparseVars

InitSplitter ==
    /\ pc = "semantic_splitter"
    /\ elements \in SplitterDocs
    /\ IdleLocals
    /\ IdleAparse

NextSplitter ==
    \/ semantic_splitter_Enter
    \/ split_element_group_Enter
    \/ split_element_group_Pass
    \/ split_element_group_Split
    \/ split_element_group_Return
    \/ semantic_splitter_Return

SpecSplitter == InitSplitter /\ [][NextSplitter]_vars

----------------------------------------------------------------------------
(* Properties of semantic_splitter *)

\* the index of the first Title of es, Len(es) + 1 if there is none
RECURSIVE FirstTitle(_)
FirstTitle(es) ==
    IF es = <<>> \/ isinstance(Head(es), "Title") THEN 1 ELSE 1 + FirstTitle(Tail(es))

\* the texts of the Titles of the input
TitleTexts(es) == {es[i].text : i \in {j \in 1..Len(es) : isinstance(es[j], "Title")}}

\* C1: semantic_splitter returns the newly split sequence: the list it built, in
\* which no element from before the first Title of the input remains and every
\* NarrativeText is a sub-unit whose text begins with its group's Title text.
C1_ReturnsSplitSequence ==
    pc = "splitter_return" =>
        /\ ret[1] = nodes
        /\ \A i \in 1..(FirstTitle(elements) - 1) :
               Occurs(elements[i], ret[1]) =>
                   \E j \in (FirstTitle(elements) + 1)..Len(elements) :
                       elements[j] = elements[i]
        /\ \A i \in 1..Len(ret[1]) :
               isinstance(ret[1][i], "NarrativeText") =>
                   \E t \in TitleTexts(elements) : StartsWith(ret[1][i].text, t \o "\n")

\* the same statement about the list the stage built and did not return
C1_BuiltSequenceIsSplit ==
    pc = "splitter_return" =>
        /\ \A i \in 1..(FirstTitle(elements) - 1) :
               Occurs(elements[i], nodes) =>
                   \E j \in (FirstTitle(elements) + 1)..Len(elements) :
                       elements[j] = elements[i]
        /\ \A i \in 1..Len(nodes) :
               isinstance(nodes[i], "NarrativeText") =>
                   \E t \in TitleTexts(elements) : StartsWith(nodes[i].text, t \o "\n")

----------------------------------------------------------------------------
(* semantic_tables.py: the functions *)

Char(s, i) == SubSeq(s, i, i)

\* the end of the match of '<[^<]+?>' that starts at i, 0 if there is none:
\* the nearest '>' at least two characters on with no '<' in between
TagEnd(s, i) ==
    LET stops == {j \in (i + 1)..Len(s) : Char(s, j) = "<"}
        limit == IF stops = {} THEN Len(s)
                 ELSE (CHOOSE x \in stops : \A y \in stops : x <= y) - 1
        ends  == {j \in (i + 2)..limit : Char(s, j) = ">"}
    IN  IF Char(s, i) # "<" \/ ends = {} THEN 0
        ELSE CHOOSE x \in ends : \A y \in ends : x <= y

\* re.sub('<[^<]+?>', '', s) from position i on
RECURSIVE StripTagsFrom(_, _)
StripTagsFrom(s, i) ==
    IF i > Len(s) THEN ""
    ELSE IF TagEnd(s, i) # 0 THEN StripTagsFrom(s, TagEnd(s, i) + 1)
    ELSE Char(s, i) \o StripTagsFrom(s, i + 1)

StripTags(s) == StripTagsFrom(s, 1)

\* textwrap.dedent(s) for a text of one line: its leading blanks are the
\* common margin and are removed
RECURSIVE dedent(_)
dedent(s) ==
    IF s # "" /\ Char(s, 1) \in {" ", "\t"} THEN dedent(SubSeq(s, 2, Len(s))) ELSE s

\* a decoded JSON value; a number keeps its literal in str
JSON(type, str, items) == [type |-> type, str |-> str, items |-> items]

JStr(str) == JSON("str", str, <<>>)

\* json.loads(content) for the replies of the model: ok is FALSE when it
\* raises JSONDecodeError
json_loads(content) ==
    CASE content = "[\"r1\"]" ->
             [ok |-> TRUE, value |-> JSON("list", "", <<JStr("r1")>>)]
      [] content = "[\"r1\", \"r2\"]" ->
             [ok |-> TRUE, value |-> JSON("list", "", <<JStr("r1"), JStr("r2")>>)]
      [] content = "[]" -> [ok |-> TRUE, value |-> JSON("list", "", <<>>)]
      [] content = "[1]" ->
             [ok |-> TRUE, value |-> JSON("list", "", <<JSON("int", "1", <<>>)>>)]
      [] content = "{}" -> [ok |-> TRUE, value |-> JSON("dict", "", <<>>)]
      [] content = "7" -> [ok |-> TRUE, value |-> JSON("int", "7", <<>>)]
      [] content = "\"ab\"" -> [ok |-> TRUE, value |-> JStr("ab")]
      [] OTHER -> [ok |-> FALSE, value |-> JSON("null", "", <<>>)]

\* what a coroutine or function produced: st is "done" or "raised" (or the
\* state of a coroutine that has not finished), exc names the exception
Outcome(st, val, exc) == [st |-> st, val |-> val, exc |-> exc]

Returned(val) == Outcome("done", val, "")

Raised(exc) == Outcome("raised", <<>>, exc)

\* element_texts[0] (line 65)
FirstItem(v) ==
    CASE v.type = "list" ->
             IF v.items = <<>> THEN Raised("IndexError") ELSE Returned(v.items[1])
      [] v.type = "str" ->
             IF v.str = "" THEN Raised("IndexError") ELSE Returned(JStr(Char(v.str, 1)))
      [] v.type = "dict" -> Raised("KeyError")
      [] OTHER -> Raised("TypeError")

_parse_llm_json_response_Reraise(content) ==
    LET d == json_loads(content)
    IN  IF ~d.ok THEN Raised("JSONDecodeError")
        ELSE IF FirstItem(d.value).st = "raised" THEN FirstItem(d.value)
        ELSE IF FirstItem(d.value).val.type # "str" THEN Raised("JSONDecodeError")
        ELSE Returned(d.value)

\* _parse_llm_json_response(response), content being response.message.content:
\* the decoded value, [] after a JSONDecodeError, or the exception that escapes
_parse_llm_json_response(content) ==
    LET d == json_loads(content)
        empty == JSON("list", "", <<>>)
    IN  IF ~d.ok THEN Returned(empty)
        ELSE IF FirstItem(d.value).st = "raised" THEN FirstItem(d.value)
        ELSE IF FirstItem(d.value).val.type # "str" THEN Returned(empty)
        ELSE Returned(d.value)

\* the values enumerate(element_texts) yields, formatted by the f-string
Formatted(v) ==
    IF v.type = "str" THEN [i \in 1..Len(v.str) |-> Char(v.str, i)]
    ELSE [i \in 1..Len(v.items) |-> v.items[i].str]

\* _semantic_parse_table(element, previous_element, llm) once the LLM has
\* replied with content (lines 147-159); idx here is Python's idx + 1
_semantic_parse_table(element, previous_element, content) ==
    LET parsed == _parse_llm_json_response(content)
        element_header ==
            IF previous_element # None THEN previous_element[1].text \o "\n\n" ELSE ""
        element_texts == Formatted(parsed.val)
    IN  IF parsed.st = "raised" THEN parsed
        ELSE Returned(
               [idx \in 1..Len(element_texts) |->
                   NarrativeText(
                     element_header \o "List Item " \o ToString(idx) \o ": "
                       \o element_texts[idx],
                     element.metadata)])

\* _semantic_summarize_table(element, previous_element, llm) once the LLM has
\* replied with content (lines 107-113)
_semantic_summarize_table(element, previous_element, content) ==
    LET element_header ==
            IF previous_element # None THEN previous_element[1].text \o "\n" ELSE ""
    IN  Returned(<<NarrativeText(element_header \o content, element.metadata)>>)

\* the list _semantic_ingest_table starts with (lines 177-184)
RawRendering(element) ==
    <<NarrativeText(dedent(StripTags(element.metadata.text_as_html[1])), element.metadata)>>

\* _semantic_ingest_table after its gather (lines 191-195): the exception of a
\* derivation escapes, otherwise results[0] is added, then results[1]
_semantic_ingest_table(raw, parse, summarize) ==
    IF parse.st = "raised" THEN Raised(parse.exc)
    ELSE IF summarize.st = "raised" THEN Raised(summarize.exc)
    ELSE Returned((raw \o parse.val) \o summarize.val)

previous_element_AnyKind(es, idx) ==
    IF idx > 1 THEN Some(es[idx - 1]) ELSE None

\* lines 218-223: the anchor of the table at idx (idx here is Python's idx + 1)
previous_element_of(es, idx) ==
    IF idx > 1
       /\ (isinstance(es[idx - 1], "NarrativeText") \/ isinstance(es[idx - 1], "Title"))
    THEN Some(es[idx - 1])
    ELSE None

\* a coroutine that has not run yet
Created == Outcome("created", <<>>, "")

\* a coroutine suspended at its await
Awaiting(val) == Outcome("awaiting", val, "")

\* the coroutine _semantic_ingest_table(element, previous_element, llm) with the
\* two derivations it gathers; response is the LLM's reply to each
IngestTask(element, previous_element) ==
    [element |-> element, previous_element |-> previous_element,
     ingest |-> Created, parse |-> Created, summarize |-> Created,
     parse_response |-> None, summarize_response |-> None]

\* one iteration of the loop of semantic_tables (lines 212-230) at index idx
RECURSIVE TablesLoop(_, _, _)
TablesLoop(l, es, idx) ==
    IF idx > Len(es) THEN l
    ELSE IF ~isinstance(es[idx], "Table")
    THEN TablesLoop([l EXCEPT !.nodes = Append(@, es[idx])], es, idx + 1)
    ELSE TablesLoop(
           [l EXCEPT !.tasks =
               Append(@, IngestTask(es[idx], previous_element_of(es, idx)))],
           es, idx + 1)

Reverse(s) == [k \in 1..Len(s) |-> s[Len(s) + 1 - k]]

semantic_tables_result_Reversed(ns, items) == ns \o Flatten(Reverse(items))

\* lines 233-239: the gathered lists are added to nodes in the order of the tasks
semantic_tables_result(ns, items) == ns \o Flatten(items)

----------------------------------------------------------------------------
(* semantic_tables.py: the coroutines.  Code between two awaits runs as one step. *)

\* the replies of the LLM to the unit-extraction prompt
UnitReplies == {"not json", "[\"r1\", \"r2\"]", "[]", "[1]", "7", "\"ab\""}

\* the replies of the LLM to the summary prompt
SummaryReplies == {"One table."}

\* the elements the inputs of semantic_tables are built from
TablesUniverse ==
    {Title("Intro"), NarrativeText("Para", PartitionMetadata), ListItem("A"), TableA}

CountTables(es) == Cardinality({i \in 1..Len(es) : isinstance(es[i], "Table")})

TablesDocs == {es \in SeqsUpTo(TablesUniverse, MaxLen) : CountTables(es) <= MaxTables}

\* lines 208-233: the loop creates one coroutine per table, gather schedules
\* them all and semantic_tables awaits the batch
semantic_tables_Enter ==
    /\ pc = "semantic_tables"
    /\ LET l == TablesLoop([nodes |-> <<>>, tasks |-> <<>>], elements, 1)
       IN  /\ nodes' = l.nodes
           /\ tasks' = l.tasks
    /\ pc' = "tables_gather"
    /\ UNCHANGED <<elements, ret, pos>>
    /\ UNCHANGED listVars
    /\ UNCHANGED splitterVars
    /\ UNCHANGED aparseVars

\* lines 177-191 and the first statement of both derivations: task t builds the
\* raw rendering, both LLM requests are sent, the task awaits its gather
ingest_table_Start(t) ==
    /\ pc = "tables_gather"
    /\ tasks[t].ingest.st = "created"
    /\ tasks' = [tasks EXCEPT ![t].ingest = Awaiting(RawRendering(tasks[t].element)),
                              ![t].parse = Awaiting(<<>>),
                              ![t].summarize = Awaiting(<<>>)]
    /\ UNCHANGED <<pc, elements, nodes, ret, pos>>
    /\ UNCHANGED listVars
    /\ UNCHANGED splitterVars
    /\ UNCHANGED aparseVars

\* lines 147-159: the LLM replies to the unit-extraction request of task t
parse_table_Reply(t) ==
    /\ pc = "tables_gather"
    /\ tasks[t].parse.st = "awaiting"
    /\ \E content \in UnitReplies :
          tasks' = [tasks EXCEPT
                      ![t].parse = _semantic_parse_table(
                                       tasks[t].element, tasks[t].previous_element, content),
                      ![t].parse_response = Some(content)]
    /\ UNCHANGED <<pc, elements, nodes, ret, pos>>
    /\ UNCHANGED listVars
    /\ UNCHANGED splitterVars
    /\ UNCHANGED aparseVars

\* lines 107-113: the LLM replies to the summary request of task t
summarize_table_Reply(t) ==
    /\ pc = "tables_gather"
    /\ tasks[t].summarize.st = "awaiting"
    /\ \E content \in SummaryReplies :
          tasks' = [tasks EXCEPT
                      ![t].summarize = _semantic_summarize_table(
                                           tasks[t].element, tasks[t].previous_element, content),
                      ![t].summarize_response = Some(content)]
    /\ UNCHANGED <<pc, elements, nodes, ret, pos>>
    /\ UNCHANGED listVars
    /\ UNCHANGED splitterVars
    /\ UNCHANGED aparseVars

\* lines 191-195: the gather of task t ends, when both derivations have
\* returned or as soon as one has raised
ingest_table_Resume(t) ==
    /\ pc = "tables_gather"
    /\ tasks[t].ingest.st = "awaiting"
    /\ \/ tasks[t].parse.st = "done" /\ tasks[t].summarize.st = "done"
       \/ tasks[t].parse.st = "raised"
       \/ tasks[t].summarize.st = "raised"
    /\ tasks' = [tasks EXCEPT ![t].ingest =
                    _semantic_ingest_table(
                        tasks[t].ingest.val, tasks[t].parse, tasks[t].summarize)]
    /\ UNCHANGED <<pc, elements, nodes, ret, pos>>
    /\ UNCHANGED listVars
    /\ UNCHANGED splitterVars
    /\ UNCHANGED aparseVars

\* lines 233-239: every task has returned; their lists are added and nodes is returned
semantic_tables_Return ==
    /\ pc = "tables_gather"
    /\ \A t \in 1..Len(tasks) : tasks[t].ingest.st = "done"
    /\ nodes' = semantic_tables_result(nodes, [t \in 1..Len(tasks) |-> tasks[t].ingest.val])
    /\ ret' = Some(nodes')
    /\ pc' = "tables_return"
    /\ UNCHANGED <<elements, pos, tasks>>
    /\ UNCHANGED listVars
    /\ UNCHANGED splitterVars
    /\ UNCHANGED aparseVars

\* line 233: a task has raised; the gather of semantic_tables raises its
\* exception, which semantic_tables does not catch
semantic_tables_Raise ==
    /\ pc = "tables_gather"
    /\ \E t \in 1..Len(tasks) : tasks[t].ingest.st = "raised"
    /\ pc' = "tables_raised"
    /\ UNCHANGED <<elements, nodes, ret, pos, tasks>>
    /\ UNCHANGED listVars
    /\ UNCHANGED splitterVars
    /\ UNCHANGED aparseVars

InitTables ==
    /\ pc = "semantic_tables"
    /\ elements \in TablesDocs
    /\ IdleLocals
    /\ IdleAparse

NextTables ==
    \/ semantic_tables_Enter
    \/ \E t \in 1..Len(tasks) : ingest_table_Start(t)
    \/ \E t \in 1..Len(tasks) : parse_table_Reply(t)
    \/ \E t \in 1..Len(tasks) : summarize_table_Reply(t)
    \/ \E t \in 1..Len(tasks) : ingest_table_Resume(t)
    \/ semantic_tables_Return
    \/ semantic_tables_Raise

SpecTables == InitTables /\ [][NextTables]_vars

----------------------------------------------------------------------------
(* Properties of semantic_tables *)

\* the indexes of the Tables of es, in order
TablePositions(es) ==
    LET idxs == {i \in 1..Len(es) : isinstance(es[i], "Table")}
        rank(i) == Cardinality({j \in idxs : j <= i})
    IN  [k \in 1..Cardinality(idxs) |-> CHOOSE i \in idxs : rank(i) = k]

\* the number of Tables among the first i elements of es
TableRank(es, i) == Cardinality({j \in 1..i : isinstance(es[j], "Table")})

\* the elements task t returned, as they lie in the returned list: after the
\* non-Table elements and the lists of the tasks before t
RECURSIVE LenBefore(_)
LenBefore(t) == IF t = 1 THEN 0 ELSE LenBefore(t - 1) + Len(tasks[t - 1].ingest.val)

Segment(t) ==
    LET off == (Len(elements) - Len(tasks)) + LenBefore(t)
    IN  SubSeq(ret[1], off + 1, off + Len(tasks[t].ingest.val))

\* the anchor text a table's derived elements are prefixed with, up to the separator
AnchorText(anchor, sep) == IF anchor # None THEN anchor[1].text \o sep ELSE ""

\* C3: when semantic_tables returns, the returned list is the input with every
\* Table replaced, at its own position, by the elements derived from it: what
\* preceded the Table precedes them, what followed it follows them, and the
\* other elements keep their order.
C3_ExpansionAtTablePosition ==
    pc = "tables_return" =>
        ret[1] = Flatten([i \in 1..Len(elements) |->
                            IF isinstance(elements[i], "Table")
                            THEN tasks[TableRank(elements, i)].ingest.val
                            ELSE <<elements[i]>>])

\* a unit-extraction reply that is not a JSON array whose first element is a string
ShapeViolation(content) ==
    LET d == json_loads(content)
    IN  \/ ~d.ok
        \/ d.value.type # "list"
        \/ d.value.items = <<>>
        \/ d.value.items[1].type # "str"

\* C4: no unit-extraction reply that violates the expected shape makes the batch
\* raise: the derivation of that table returns an empty unit list, and when
\* the batch returns every table's elements are in the returned list.
C4_ShapeViolationIsolated ==
    /\ pc # "tables_raised"
    /\ \A t \in 1..Len(tasks) :
          (tasks[t].parse_response # None /\ ShapeViolation(tasks[t].parse_response[1])) =>
              tasks[t].parse = Returned(<<>>)
    /\ pc = "tables_return" =>
          \A t \in 1..Len(tasks) :
              /\ Len(tasks[t].ingest.val) >= 2
              /\ Segment(t) = tasks[t].ingest.val

\* the text of TableA without its markup
TableAText == "ab"

\* C6: a table whose unit-extraction reply is not valid JSON gets zero unit
\* elements and the stage does not raise for it; its returned elements are
\* exactly the raw rendering and then the summary, and these two are what the
\* returned list holds for it.
C6_InvalidJsonKeepsRawAndSummary ==
    \A t \in 1..Len(tasks) :
        (tasks[t].parse_response # None /\ ~json_loads(tasks[t].parse_response[1]).ok) =>
            /\ tasks[t].parse = Returned(<<>>)
            /\ tasks[t].ingest.st # "raised"
            /\ tasks[t].ingest.st = "done" =>
                  tasks[t].ingest.val =
                      <<NarrativeText(TableAText, tasks[t].element.metadata),
                        NarrativeText(
                          AnchorText(tasks[t].previous_element, "\n")
                            \o tasks[t].summarize_response[1],
                          tasks[t].element.metadata)>>
            /\ pc = "tables_return" => Segment(t) = tasks[t].ingest.val

C6_Witness ==
    /\ pc = "tables_return"
    /\ Len(tasks) = 2
    /\ tasks[1].parse_response = Some("not json")
    /\ tasks[2].parse_response = Some("[\"r1\", \"r2\"]")
    /\ Len(ret[1]) = 6

\* C7: the anchor of a Table is the element just before it in the input when
\* that element is a NarrativeText or a Title and is absent otherwise; the text
\* of every unit element and of the summary element of the table begins with
\* that anchor's text.
C7_AnchorIsImmediatePredecessor ==
    \A t \in 1..Len(tasks) :
        LET i == TablePositions(elements)[t]
            anchor == IF i > 1 /\ elements[i - 1].kind \in {"NarrativeText", "Title"}
                      THEN Some(elements[i - 1]) ELSE None
        IN  /\ tasks[t].element = elements[i]
            /\ tasks[t].previous_element = anchor
            /\ tasks[t].parse.st = "done" =>
                  \A u \in 1..Len(tasks[t].parse.val) :
                      StartsWith(tasks[t].parse.val[u].text,
                                 AnchorText(anchor, "\n\n") \o "List Item ")
            /\ tasks[t].summarize.st = "done" =>
                  tasks[t].summarize.val[1].text =
                      AnchorText(anchor, "\n") \o tasks[t].summarize_response[1]

C7_Witness ==
    /\ pc = "tables_return"
    /\ elements = <<Title("Intro"), TableA, TableA>>
    /\ tasks[1].previous_element = Some(Title("Intro"))
    /\ tasks[2].previous_element = None
    /\ Len(tasks[1].parse.val) = 2
    /\ StartsWith(ret[1][3].text, "Intro\n\nList Item 1: r1")
    /\ StartsWith(ret[1][5].text, "Intro\nOne table.")


\* the non-Table elements of es, in order
NonTables(es) == SelectSeq(es, LAMBDA e : ~isinstance(e, "Table"))

\* semantic_tables has left its loop: the coroutines of the tables exist
TasksCreated == pc \in {"tables_gather", "tables_return", "tables_raised"}

\* what the derivations of the t-th Table of the document return, from the
\* replies the LLM gave to the requests of task t
ExpansionOf(t) ==
    LET idx == TablePositions(elements)[t]
        element == elements[idx]
        previous_element == previous_element_of(elements, idx)
    IN  _semantic_ingest_table(
            RawRendering(element),
            _semantic_parse_table(element, previous_element, tasks[t].parse_response[1]),
            _semantic_summarize_table(element, previous_element,
                                      tasks[t].summarize_response[1])).val

----------------------------------------------------------------------------
(* metadata_parser.py *)

\* text[:n] and text[n:] for n >= 0
SliceTo(text, n) == SubSeq(text, 1, IF n > Len(text) THEN Len(text) ELSE n)

SliceFrom(text, n) == SubSeq(text, n + 1, Len(text))

ParseUrlsBody_UrlDelta(u, link) ==
    LET start_index == link.start_index + u.change_delta
        link_text == link.text
        end_index == start_index + Len(link_text)
        new_text == " (The link URL is " \o link.url \o ")"
    IN  [text |-> SliceTo(u.text, start_index) \o link_text \o new_text
                    \o SliceFrom(u.text, end_index),
         change_delta |-> u.change_delta + Len(link.url)]

\* one iteration of the loop of _parse_element_urls; u holds text and change_delta
ParseUrlsBody(u, link) ==
    LET start_index == link.start_index + u.change_delta
        link_text == link.text
        end_index == start_index + Len(link_text)
        new_text == " (The link URL is " \o link.url \o ")"
    IN  [text |-> SliceTo(u.text, start_index) \o link_text \o new_text
                    \o SliceFrom(u.text, end_index),
         change_delta |-> u.change_delta + Len(new_text)]

RECURSIVE ParseUrlsLoop(_, _)
ParseUrlsLoop(u, links) ==
    IF links = <<>> THEN u ELSE ParseUrlsLoop(ParseUrlsBody(u, Head(links)), Tail(links))

\* _parse_element_urls(element): the element as it is left
_parse_element_urls(element) ==
    [element EXCEPT
        !.text = ParseUrlsLoop([text |-> element.text, change_delta |-> 0],
                               element.metadata.links[1]).text,
        !.metadata.link_texts = None,
        !.metadata.links = None,
        !.metadata.link_urls = None]

\* one iteration of the loop of metadata_parser: the element as it is left
MetadataBody(element) ==
    LET e == IF element.metadata.links # None /\ element.metadata.links[1] # <<>>
             THEN _parse_element_urls(element)
             ELSE element
    IN  [e EXCEPT !.metadata.parent_id = None,
                  !.metadata.category_depth = None,
                  !.metadata.filetype = None,
                  !.metadata.languages = None,
                  !.metadata.page_number = None]

\* metadata_parser(elements): the list as it is left, modified in place
metadata_parser(es) == [i \in 1..Len(es) |-> MetadataBody(es[i])]

----------------------------------------------------------------------------
(* parser.py: SemanticDocumentParser.aparse *)

Link(start_index, text, url) == [start_index |-> start_index, text |-> text, url |-> url]

\* a NarrativeText of two sentences with one hyperlink, as the partitioner leaves it
LinkedText ==
    NarrativeText(
      "See here. Bye.",
      [PartitionMetadata EXCEPT !.links = Some(<<Link(4, "here", "http://x")>>),
                                !.link_texts = Some(<<"here">>),
                                !.link_urls = Some(<<"http://x">>)])

\* the elements the partitioner's results are built from
ParseUniverse == {Title("Intro"), LinkedText, ListItem("A"), TableA}

\* partition(file=document): the lists the external partitioner may return.
\* The whole pipeline is explored with fewer tables than semantic_tables alone.
ParseDocs == {es \in SeqsUpTo(ParseUniverse, MaxDoc) : CountTables(es) < MaxTables}

NoElements_Never(es) == Len(es) < 0

\* line 52
NoElements(es) == Len(es) < 1

StageResult_Discard(old, returned) == old

\* lines 70, 75, 79: `elements = <stage>(elements)` rebinds elements
StageResult(old, returned) == returned

\* a stage aparse has called: its argument, and once it has returned the list
\* it handed back (for metadata_parser the argument as modified in place)
Call(stage, arg) == [stage |-> stage, arg |-> arg, out |-> None]

Finish(cs, out) == [cs EXCEPT ![Len(cs)].out = Some(out)]

\* the stats of lines 53-59 and 82-88
ShortStats(t) ==
    [element_parse_time |-> Some(t._1_end_time[1] - t._1_start_time[1]),
     metadata_parse_time |-> None,
     paragraph_parse_time |-> None,
     list_parse_time |-> None,
     table_parse_time |-> None]

FullStats(t) ==
    [element_parse_time |-> Some(t._1_end_time[1] - t._1_start_time[1]),
     metadata_parse_time |-> Some(t._2_end_time[1] - t._2_start_time[1]),
     paragraph_parse_time |-> Some(t._3_end_time[1] - t._3_start_time[1]),
     list_parse_time |-> Some(t._4_end_time[1] - t._4_start_time[1]),
     table_parse_time |-> Some(t._5_end_time[1] - t._5_start_time[1])]

\* the locals of a stage that has returned are gone
LocalsDropped ==
    /\ nodes' = <<>>
    /\ ret' = None
    /\ pos' = 0
    /\ header_node' = None
    /\ list_group' = <<>>
    /\ last_node' = None
    /\ element_groups' = <<>>
    /\ subpos' = 0
    /\ group_nodes' = <<>>

\* the positions of aparse whose next statement reads int(time.time())
ClockReads ==
    {"aparse_partition", "aparse_check", "metadata_return", "splitter_return",
     "list_return", "tables_return"}

\* int(time.time()) advances.  aparse reads the clock only between the stages,
\* so a second that passes during a stage is modelled as passing just before
\* the reading that follows it.
Tick ==
    /\ pc \in ClockReads
    /\ now < MaxTime
    /\ now' = now + 1
    /\ UNCHANGED <<pc, elements, nodes, ret, pos, tasks, times, partitioned, calls, result>>
    /\ UNCHANGED listVars
    /\ UNCHANGED splitterVars

\* line 47
aparse_Start ==
    /\ pc = "aparse"
    /\ times' = [times EXCEPT !._1_start_time = Some(now)]
    /\ pc' = "aparse_partition"
    /\ UNCHANGED <<now, elements, nodes, ret, pos, tasks, partitioned, calls, result>>
    /\ UNCHANGED listVars
    /\ UNCHANGED splitterVars

\* lines 48-49
aparse_Partition ==
    /\ pc = "aparse_partition"
    /\ \E doc \in ParseDocs :
          /\ elements' = doc
          /\ partitioned' = Some(doc)
    /\ times' = [times EXCEPT !._1_end_time = Some(now)]
    /\ pc' = "aparse_check"
    /\ UNCHANGED <<now, nodes, ret, pos, tasks, calls, result>>
    /\ UNCHANGED listVars
    /\ UNCHANGED splitterVars

\* lines 52-61
aparse_ShortCircuit ==
    /\ pc = "aparse_check"
    /\ NoElements(elements)
    /\ result' = Some([elements |-> <<>>, stats |-> ShortStats(times)])
    /\ pc' = "aparse_done"
    /\ UNCHANGED <<now, elements, nodes, ret, pos, tasks, times, partitioned, calls>>
    /\ UNCHANGED listVars
    /\ UNCHANGED splitterVars

\* lines 64-65: metadata_parser is called
aparse_CallMetadataParser ==
    /\ pc = "aparse_check"
    /\ ~NoElements(elements)
    /\ times' = [times EXCEPT !._2_start_time = Some(now)]
    /\ calls' = Append(calls, Call("metadata_parser", elements))
    /\ pc' = "metadata_parser"
    /\ UNCHANGED <<now, elements, nodes, ret, pos, tasks, partitioned, result>>
    /\ UNCHANGED listVars
    /\ UNCHANGED splitterVars

\* metadata_parser.py lines 46-59: the elements are modified in place, None is returned
metadata_parser_Run ==
    /\ pc = "metadata_parser"
    /\ elements' = metadata_parser(elements)
    /\ ret' = None
    /\ pc' = "metadata_return"
    /\ UNCHANGED <<nodes, pos, tasks>>
    /\ UNCHANGED listVars
    /\ UNCHANGED splitterVars
    /\ UNCHANGED aparseVars

\* lines 66, 69-70: semantic_splitter is called
aparse_CallSemanticSplitter ==
    /\ pc = "metadata_return"
    /\ times' = [times EXCEPT !._2_end_time = Some(now), !._3_start_time = Some(now)]
    /\ calls' = Append(Finish(calls, elements), Call("semantic_splitter", elements))
    /\ pc' = "semantic_splitter"
    /\ LocalsDropped
    /\ UNCHANGED <<now, elements, tasks, partitioned, result>>

\* lines 70-71, 74-75: elements is rebound to the list semantic_splitter
\* returned and list_parser is called
aparse_CallListParser ==
    /\ pc = "splitter_return"
    /\ elements' = StageResult(elements, ret[1])
    /\ times' = [times EXCEPT !._3_end_time = Some(now), !._4_start_time = Some(now)]
    /\ calls' = Append(Finish(calls, ret[1]), Call("list_parser", elements'))
    /\ pc' = "list_parser"
    /\ LocalsDropped
    /\ UNCHANGED <<now, tasks, partitioned, result>>

\* lines 75-76, 78-79: elements is rebound to the list list_parser returned and
\* semantic_tables is called
aparse_CallSemanticTables ==
    /\ pc = "list_return"
    /\ elements' = StageResult(elements, ret[1])
    /\ times' = [times EXCEPT !._4_end_time = Some(now), !._5_start_time = Some(now)]
    /\ calls' = Append(Finish(calls, ret[1]), Call("semantic_tables", elements'))
    /\ pc' = "semantic_tables"
    /\ LocalsDropped
    /\ UNCHANGED <<now, tasks, partitioned, result>>

\* lines 79-90: elements is rebound to the list semantic_tables returned; the
\* stats are built and the pair is returned
aparse_Return ==
    /\ pc = "tables_return"
    /\ elements' = StageResult(elements, ret[1])
    /\ times' = [times EXCEPT !._5_end_time = Some(now)]
    /\ calls' = Finish(calls, ret[1])
    /\ result' = Some([elements |-> elements', stats |-> FullStats(times')])
    /\ pc' = "aparse_done"
    /\ UNCHANGED <<now, nodes, ret, pos, tasks, partitioned>>
    /\ UNCHANGED listVars
    /\ UNCHANGED splitterVars

\* line 79: the exception semantic_tables raised leaves aparse; nothing is returned
aparse_Raise ==
    /\ pc = "tables_raised"
    /\ pc' = "aparse_raised"
    /\ UNCHANGED <<elements, nodes, ret, pos, tasks>>
    /\ UNCHANGED listVars
    /\ UNCHANGED splitterVars
    /\ UNCHANGED aparseVars

Init ==
    /\ pc = "aparse"
    /\ elements = <<>>
    /\ IdleLocals
    /\ IdleAparse

Next ==
    \/ Tick
    \/ aparse_Start
    \/ aparse_Partition
    \/ aparse_ShortCircuit
    \/ aparse_CallMetadataParser
    \/ metadata_parser_Run
    \/ aparse_CallSemanticSplitter
    \/ semantic_splitter_Enter
    \/ split_element_group_Enter
    \/ split_element_group_Pass
    \/ split_element_group_Split
    \/ split_element_group_Return
    \/ semantic_splitter_Return
    \/ aparse_CallListParser
    \/ list_parser_Enter
    \/ list_parser_Loop
    \/ list_parser_Return
    \/ aparse_CallSemanticTables
    \/ semantic_tables_Enter
    \/ \E t \in 1..Len(tasks) : ingest_table_Start(t)
    \/ \E t \in 1..Len(tasks) : parse_table_Reply(t)
    \/ \E t \in 1..Len(tasks) : summarize_table_Reply(t)
    \/ \E t \in 1..Len(tasks) : ingest_table_Resume(t)
    \/ semantic_tables_Return
    \/ semantic_tables_Raise
    \/ aparse_Return
    \/ aparse_Raise

Spec == Init /\ [][Next]_vars

----------------------------------------------------------------------------
(* Properties of aparse *)

Seconds == {Some(n) : n \in 0..MaxTime}

\* C8: when the partitioner returned no element, no stage is ever invoked and
\* aparse returns the empty list with element_parse_time an integer and the
\* four other durations None; when it returned elements and aparse returns,
\* the four stages have been invoked and all five durations are integers.
C8_EmptyShortCircuits ==
    /\ (partitioned # None /\ partitioned[1] = <<>>) =>
          /\ calls = <<>>
          /\ pc \in {"aparse_check", "aparse_done"}
          /\ pc = "aparse_done" =>
                /\ result # None
                /\ result[1].elements = <<>>
                /\ result[1].stats.element_parse_time \in Seconds
                /\ result[1].stats.metadata_parse_time = None
                /\ result[1].stats.paragraph_parse_time = None
                /\ result[1].stats.list_parse_time = None
                /\ result[1].stats.table_parse_time = None
    /\ (result # None /\ partitioned[1] # <<>>) =>
          /\ Len(calls) = 4
          /\ result[1].stats.element_parse_time \in Seconds
          /\ result[1].stats.metadata_parse_time \in Seconds
          /\ result[1].stats.paragraph_parse_time \in Seconds
          /\ result[1].stats.list_parse_time \in Seconds
          /\ result[1].stats.table_parse_time \in Seconds

C8_Witness ==
    /\ pc = "aparse_done"
    /\ partitioned = Some(<<>>)
    /\ result[1].elements = <<>>
    /\ result[1].stats.element_parse_time = Some(1)

StageOrder == <<"metadata_parser", "semantic_splitter", "list_parser", "semantic_tables">>

\* the positions inside the k-th stage
StagePositions ==
    <<{"metadata_parser", "metadata_return"},
      {"semantic_splitter", "splitter_loop", "splitter_group", "splitter_return"},
      {"list_parser", "list_loop", "list_return"},
      {"semantic_tables", "tables_gather", "tables_return", "tables_raised"}>>

\* C9: aparse invokes metadata_parser, semantic_splitter, list_parser and
\* semantic_tables in this order; every stage is given the list the stage
\* before it handed back (the first the partitioner's list), and is invoked only
\* after that stage has returned; a stage that has returned has no work left:
\* no group unprocessed, no element unread, no table task or LLM call pending.
C9_StagesInOrder ==
    /\ Len(calls) <= 4
    /\ \A k \in 1..Len(calls) : calls[k].stage = StageOrder[k]
    /\ calls # <<>> => calls[1].arg = partitioned[1]
    /\ \A k \in 2..Len(calls) :
          /\ calls[k - 1].out # None
          /\ calls[k].arg = calls[k - 1].out[1]
    /\ \A k \in 1..4 :
          pc \in StagePositions[k] =>
              /\ Len(calls) = k
              /\ calls[k].out = None
              /\ calls[k].arg = IF k = 1 THEN partitioned[1] ELSE elements
    /\ pc = "splitter_return" => pos = Len(element_groups)
    /\ pc = "list_return" => pos = Len(_iterate_without_page_breaks(elements))
    /\ pc \in {"tables_return", "aparse_done"} =>
          \A t \in 1..Len(tasks) :
              /\ tasks[t].ingest.st = "done"
              /\ tasks[t].parse.st = "done"
              /\ tasks[t].summarize.st = "done"
    /\ (pc = "aparse_done" /\ calls # <<>>) =>
          /\ Len(calls) = 4
          /\ calls[4].out # None
          /\ result[1].elements = calls[4].out[1]

C9_Witness ==
    /\ pc = "aparse_done"
    /\ Len(calls) = 4
    /\ calls[3].out[1] # calls[3].arg
    /\ Len(tasks) = 1
    /\ Len(result[1].elements) > Len(partitioned[1])

----------------------------------------------------------------------------
(* metadata_parser on elements with hyperlinks *)

\* the text of the linked elements
LinkedBody == "abcd"

\* the spans of one or two characters of a text, as (start_index, length)
Spans(text) ==
    {sp \in (0..(Len(text) - 1)) \X (1..2) : sp[1] + sp[2] <= Len(text)}

\* the hyperlinks the partitioner may report for a text: a span with its own
\* text, and a URL
CandidateLinks(text) ==
    {Link(sp[1], SubSeq(text, sp[1] + 1, sp[1] + sp[2]), url) :
        sp \in Spans(text), url \in {"u", "xyz"}}

\* links in left-to-right order with spans that lie in the text and do not overlap
WellOrdered(text, links) ==
    /\ \A k \in 1..Len(links) :
          /\ links[k].text # ""
          /\ links[k].start_index + Len(links[k].text) <= Len(text)
    /\ \A k \in 1..(Len(links) - 1) :
          links[k].start_index + Len(links[k].text) <= links[k + 1].start_index

LinkLists(text) ==
    {links \in SeqsUpTo(CandidateLinks(text), MaxLinks) : WellOrdered(text, links)}

\* a NarrativeText as the partitioner leaves it with the given links
WithLinks(text, links) ==
    NarrativeText(
      text,
      [PartitionMetadata EXCEPT
          !.links = Some(links),
          !.link_texts = Some([k \in 1..Len(links) |-> links[k].text]),
          !.link_urls = Some([k \in 1..Len(links) |-> links[k].url])])

LinkedElements == {WithLinks(LinkedBody, links) : links \in LinkLists(LinkedBody)}

\* the elements without links around the linked one
PlainUniverse == {Title("Intro"), TableA}

\* the inputs of metadata_parser: one element with links among elements without
MetaDocs ==
    {(pre \o <<e>>) \o post :
        pre \in SeqsUpTo(PlainUniverse, MaxDoc - 1),
        e \in LinkedElements,
        post \in SeqsUpTo(PlainUniverse, MaxDoc - 1)}

\* partitioned keeps the list as it was handed to metadata_parser
InitMeta ==
    /\ pc = "metadata_parser"
    /\ elements \in MetaDocs
    /\ partitioned = Some(elements)
    /\ IdleLocals
    /\ now = 0
    /\ times = NoTimes
    /\ calls = <<>>
    /\ result = None

NextMeta == metadata_parser_Run

SpecMeta == InitMeta /\ [][NextMeta]_vars

\* the text inserted after a linked substring
Inserted(link) == " (The link URL is " \o link.url \o ")"

\* text with the insertion of every link placed right after its substring,
\* the last link first, so that every offset is one into the original text
RECURSIVE InsertFromRight(_, _)
InsertFromRight(text, links) ==
    IF links = <<>> THEN text
    ELSE LET l == links[Len(links)]
             e == l.start_index + Len(l.text)
         IN  InsertFromRight(
                 SubSeq(text, 1, e) \o Inserted(l) \o SubSeq(text, e + 1, Len(text)),
                 SubSeq(links, 1, Len(links) - 1))

\* the total length inserted by the links before the k-th
RECURSIVE InsertedBefore(_, _)
InsertedBefore(links, k) ==
    IF k = 1 THEN 0 ELSE InsertedBefore(links, k - 1) + Len(Inserted(links[k - 1]))

\* C11: for an element whose links are in left-to-right order with
\* non-overlapping spans, metadata_parser leaves the original text with
\* " (The link URL is <url>)" inserted right after each linked substring; the
\* k-th linked substring and its insertion lie at its original offset plus the
\* total length inserted for the links before it; the link fields are cleared.
C11_LinksInlinedWithDelta ==
    pc = "metadata_return" =>
        \A i \in 1..Len(elements) :
            LET orig == partitioned[1][i]
                links == orig.metadata.links[1]
            IN  (orig.metadata.links # None /\ links # <<>>) =>
                    /\ elements[i].text = InsertFromRight(orig.text, links)
                    /\ \A k \in 1..Len(links) :
                          LET at == links[k].start_index + InsertedBefore(links, k)
                              piece == links[k].text \o Inserted(links[k])
                          IN  SubSeq(elements[i].text, at + 1, at + Len(piece)) = piece
                    /\ elements[i].metadata.links = None
                    /\ elements[i].metadata.link_texts = None
                    /\ elements[i].metadata.link_urls = None

C11_Witness ==
    /\ pc = "metadata_return"
    /\ Len(elements) = 2
    /\ partitioned[1][2].metadata.links = Some(<<Link(0, "a", "u"), Link(1, "bc", "xyz")>>)
    /\ elements[2].text = "a (The link URL is u)bc (The link URL is xyz)d"
    /\ elements[2].metadata.links = None

====
